---- MODULE Spec2Model ----
(***************************************************************************)
(* Model of the MSA table transforms of frankenmsa/utils/msatools.py, of    *)
(* the clustering calls of frankenmsa/cluster, of the A3M reader and writer *)
(* of frankenmsa/utils/fileio.py, of the combine, upload and edit callbacks *)
(* of the GUI (src/app/pages) with its msa-data and main-msa stores, of     *)
(* A3MAlignment.to_depth (frankenfold), of the download and the default     *)
(* generator of frankenmsa/inverse_fold, and of the MMSeqs2Colab client.    *)
(*                                                                         *)
(* A table (pandas DataFrame) is a sequence of rows; a row is a record     *)
(* [header, sequence]; a sequence string is a TLA+ sequence of one-letter  *)
(* strings.  The header of a row of an input table is its original         *)
(* position, so that rows with equal sequences stay distinguishable.       *)
(*                                                                         *)
(* A call ends either with a table or with a Python exception; a result    *)
(* is the record [status, rows] with status "ok" or the exception's name.  *)
(***************************************************************************)
EXTENDS Integers, Sequences, FiniteSets

VARIABLES inp, out, op, arg, calls, caller_df

\* The GUI (src/app): the msa-data and main-msa stores, the children of the
\* combine page's block container, and the locals of a running combine_msas.
VARIABLES msa_data, main_msa, children, combine

toolVars == <<inp, out, op, arg, calls, caller_df>>

guiVars == <<msa_data, main_msa, children, combine>>

\* A clustering call (frankenmsa/cluster), an A3M file being written and read
\* back (frankenmsa/utils/fileio.py), and the last upload (src/app/pages/file.py).
VARIABLES clus, a3m, upload

\* The inputs of the edit page (src/app/pages/edit.py), an A3MAlignment
\* (frankenfold/core/msa), a download of a sequence generator and the cached
\* default generator (frankenmsa/inverse_fold), and an MMSeqs2Colab job
\* (frankenmsa/align/mmseqs_colab.py).
VARIABLES edit, aln, dl, backend, job


otherVars == <<clus, a3m, upload, edit, aln, dl, backend, job>>

vars == <<toolVars, guiVars, otherVars>>

\* ------------------------------------------------------------------ bounds
MaxRows == 2
MaxLen == 2
MaxDepth == 5
MaxTarget == 3
MinInt == 2
FracDen == 4
MaxCalls == 2

Alphabet == {"A", "-"}

\* ------------------------------------------------------------- data model
Min(a, b) == IF a < b THEN a ELSE b

Max(a, b) == IF a < b THEN b ELSE a

Row(h, s) == [header |-> h, sequence |-> s]

Strings == UNION {[1..n -> Alphabet] : n \in 0..MaxLen}

Table(seqs) == [i \in 1..Len(seqs) |-> Row(i, seqs[i])]

RandomTables == {Table(f) : f \in UNION {[1..n -> Strings] : n \in 0..MaxRows}}

\* The tables of the documented examples.
GapScenario ==
    Table(<< <<"M", "K", "V", "-">>, <<"M", "K", "V", "L">>, <<"M", "K", "-", "-">> >>)

IdentityScenario ==
    Table(<< <<"A", "A", "A", "A">>, <<"A", "A", "A", "T">>, <<"A", "A", "T", "T">> >>)

TieScenario ==
    Table(<< <<"A", "A">>, <<"A", "-">>, <<"-", "A">>, <<"A", "A">> >>)

Tables == RandomTables \cup {GapScenario, IdentityScenario, TieScenario}

Ok(rows) == [status |-> "ok", rows |-> rows]

Raise(exc) == [status |-> exc, rows |-> <<>>]

Arg(kind, n, m, flag) == [kind |-> kind, n |-> n, m |-> m, flag |-> flag]

NoArg == Arg("none", 0, 0, FALSE)

\* --------------------------------------------------- Python / pandas helpers
\* str.count("-")
GapCount(s) == Cardinality({i \in 1..Len(s) : s[i] = "-"})

\* "-" * k
Gaps(k) == [i \in 1..k |-> "-"]

\* str.ljust(width, "-"): a string at least as long as width is unchanged
ljust(s, width) == IF Len(s) >= width THEN s ELSE s \o Gaps(width - Len(s))

\* s[0:stop], Python slice semantics: a negative stop counts from the end
slice0(s, stop) ==
    IF stop >= 0
    THEN SubSeq(s, 1, Min(stop, Len(s)))
    ELSE SubSeq(s, 1, Max(Len(s) + stop, 0))

\* df.iloc[:k] for k >= 0
iloc_head(df, k) == SubSeq(df, 1, Min(k, Len(df)))

\* pd.concat([df] * k, ignore_index=True)
RECURSIVE concat_repeat(_, _)
concat_repeat(df, k) == IF k <= 0 THEN <<>> ELSE df \o concat_repeat(df, k - 1)

SeqLens(df) == {Len(df[i].sequence) : i \in 1..Len(df)}

SetMax(S) == CHOOSE x \in S : \A y \in S : y <= x

SetMin(S) == CHOOSE x \in S : \A y \in S : x <= y

\* ------------------------------------------------------------ depth adjust
crop_to_depth_plus_one(df, depth) ==
    IF depth < 0 THEN Ok(df) ELSE Ok(iloc_head(df, depth + 1))

crop_to_depth(df, depth) ==
    IF depth < 0 THEN Ok(df) ELSE Ok(iloc_head(df, depth))

\* every row repeated in place (np.repeat) instead of the table repeated
extend_to_depth_each_row(df, depth) ==
    IF depth < Len(df) THEN Ok(df)
    ELSE IF Len(df) = 0 THEN Raise("ZeroDivisionError")
    ELSE LET repeat_count == (depth + Len(df) - 1) \div Len(df)
         IN  Ok([i \in 1..depth |-> df[((i - 1) \div repeat_count) + 1]])

extend_to_depth(df, depth) ==
    IF depth < Len(df) THEN Ok(df)
    ELSE IF Len(df) = 0 THEN Raise("ZeroDivisionError")
    ELSE LET repeat_count == (depth + Len(df) - 1) \div Len(df)
         IN  Ok(iloc_head(concat_repeat(df, repeat_count), depth))

adjust_depth(df, depth) ==
    IF Len(df) < depth THEN extend_to_depth(df, depth) ELSE crop_to_depth(df, depth)

\* ------------------------------------------------------------ unify_length
\* the exception of lines 45-52, or "ok"
TargetStatus(df, a) ==
    CASE a.kind = "first" -> IF Len(df) = 0 THEN "IndexError" ELSE "ok"
      [] a.kind \in {"max", "min"} -> IF Len(df) = 0 THEN "TypeError" ELSE "ok"
      [] OTHER -> "ok"

\* sequence_length after lines 45-52
ResolveLength(df, a) ==
    CASE a.kind = "first" -> Len(df[1].sequence)
      [] a.kind = "max" -> SetMax(SeqLens(df))
      [] a.kind = "min" -> SetMin(SeqLens(df))
      [] OTHER -> a.n

\* slices to sequence_length - 1
unify_rows_short(df, L) ==
    [i \in 1..Len(df) |-> Row(df[i].header, slice0(ljust(df[i].sequence, L), L - 1))]

\* pads on the left (str.rjust)
unify_rows_rjust(df, L) ==
    [i \in 1..Len(df) |->
        Row(df[i].header,
            slice0(IF Len(df[i].sequence) >= L THEN df[i].sequence
                   ELSE Gaps(L - Len(df[i].sequence)) \o df[i].sequence, L))]

unify_rows(df, L) ==
    [i \in 1..Len(df) |-> Row(df[i].header, slice0(ljust(df[i].sequence, L), L))]

unify_length(df, a) ==
    IF TargetStatus(df, a) # "ok" THEN Raise(TargetStatus(df, a))
    ELSE Ok(unify_rows(df, ResolveLength(df, a)))

\* ------------------------------------------------------------- filter_gaps
\* df[mask].reset_index(drop=True): the rows whose mask is True, in order
Masked(df, mask) ==
    LET I == {i \in 1..Len(df) : mask[i]}
    IN  [k \in 1..Cardinality(I) |->
            df[CHOOSE i \in I : Cardinality({j \in I : j <= i}) = k]]

\* gap_count / sequence_length <= num / den; 0 / 0 is NaN, and NaN <= f is False
GapFractionAtMost(s, num, den) == Len(s) > 0 /\ GapCount(s) * den <= num * Len(s)

\* strict comparison
filter_gaps_strict(df, num, den) ==
    IF ~(0 <= num /\ num <= den) THEN Raise("ValueError")
    ELSE Ok(Masked(df, [i \in 1..Len(df) |->
                /\ Len(df[i].sequence) > 0
                /\ GapCount(df[i].sequence) * den < num * Len(df[i].sequence)]))

\* inverted comparison
filter_gaps_inverted(df, num, den) ==
    IF ~(0 <= num /\ num <= den) THEN Raise("ValueError")
    ELSE Ok(Masked(df, [i \in 1..Len(df) |->
                /\ Len(df[i].sequence) > 0
                /\ GapCount(df[i].sequence) * den >= num * Len(df[i].sequence)]))

filter_gaps(df, num, den) ==
    IF ~(0 <= num /\ num <= den) THEN Raise("ValueError")
    ELSE Ok(Masked(df, [i \in 1..Len(df) |-> GapFractionAtMost(df[i].sequence, num, den)]))

\* ---------------------------------------------------------------- identity
\* q = df.iloc[[0]]["sequence"]: a Series holding one element, the query string
QuerySeries(df) == <<df[1].sequence>>

\* sum(a == b for a, b in zip(q, x)): zip pairs the elements of the Series q
\* with the characters of the string x, and a character is a one-letter string
identity_count(q, x) ==
    Cardinality({i \in 1..Min(Len(q), Len(x)) : q[i] = <<x[i]>>})

IdentityCounts(df) ==
    [i \in 1..(Len(df) - 1) |-> identity_count(QuerySeries(df), df[i + 1].sequence)]

GapCounts(df) == [i \in 1..(Len(df) - 1) |-> GapCount(df[i + 1].sequence)]

\* ---------------------------------------------------------------- sorting
Permutations(n) == {p \in [1..n -> 1..n] : \A i, j \in 1..n : p[i] = p[j] => i = j}

InOrder(a, b, ascending) == IF ascending THEN a <= b ELSE a >= b

\* DataFrame.sort_values(by=key, ascending=ascending) with the default
\* kind="quicksort", which is not a stable sort: every arrangement of the rows
\* that is ordered by the key is a possible outcome.
sort_values(rows, keys, ascending) ==
    {[i \in 1..Len(rows) |-> rows[p[i]]] :
        p \in {q \in Permutations(Len(rows)) :
                 \A i \in 1..(Len(rows) - 1) : InOrder(keys[q[i]], keys[q[i + 1]], ascending)}}

\* the whole table is sorted, the query row included
sort_gaps_whole(df, ascending) ==
    IF Len(df) = 0 THEN {Raise("IndexError")}
    ELSE {Ok(s) : s \in sort_values(df, [i \in 1..Len(df) |-> GapCount(df[i].sequence)],
                                    ascending)}

\* the direction is ignored
sort_gaps_ascending(df, ascending) ==
    IF Len(df) = 0 THEN {Raise("IndexError")}
    ELSE {Ok(<<df[1]>> \o s) : s \in sort_values(Tail(df), GapCounts(df), TRUE)}

sort_gaps(df, ascending) ==
    IF Len(df) = 0 THEN {Raise("IndexError")}
    ELSE {Ok(<<df[1]>> \o s) : s \in sort_values(Tail(df), GapCounts(df), ascending)}

sort_identity(df, ascending) ==
    IF Len(df) = 0 THEN {Raise("IndexError")}
    ELSE {Ok(<<df[1]>> \o s) : s \in sort_values(Tail(df), IdentityCounts(df), ascending)}

\* --------------------------------------------------------- filter_identity
filter_identity(df, num, den, method) ==
    IF ~(0 <= num /\ num <= den) THEN Raise("ValueError")
    ELSE IF Len(df) = 0 THEN Raise("IndexError")
    ELSE LET q == QuerySeries(df)
             _df == Tail(df)
             \* identity_count / sequence_length compared with num / den
             AtLeast == [i \in 1..Len(_df) |->
                           /\ Len(_df[i].sequence) > 0
                           /\ identity_count(q, _df[i].sequence) * den
                                  >= num * Len(_df[i].sequence)]
             Below == [i \in 1..Len(_df) |->
                         /\ Len(_df[i].sequence) > 0
                         /\ identity_count(q, _df[i].sequence) * den
                                < num * Len(_df[i].sequence)]
         IN  CASE method = "keep" -> Ok(<<df[1]>> \o Masked(_df, AtLeast))
               [] method = "remove" -> Ok(<<df[1]>> \o Masked(_df, Below))
               [] OTHER -> Raise("ValueError")

\* --------------------------------------------------------- drop_duplicates
\* DataFrame.drop_duplicates(subset="sequence", keep=...): the mask of the rows
\* that are the first (last) row holding their sequence
FirstOrLast(df, keep_first) ==
    [i \in 1..Len(df) |->
        IF keep_first
        THEN \A j \in 1..(i - 1) : df[j].sequence # df[i].sequence
        ELSE \A j \in (i + 1)..Len(df) : df[j].sequence # df[i].sequence]

\* keep="first" whatever the flag
drop_duplicates_first(df, keep_first) == Ok(Masked(df, FirstOrLast(df, TRUE)))

drop_duplicates(df, keep_first) == Ok(Masked(df, FirstOrLast(df, keep_first)))

\* --------------------------------------------------------- slice_sequences
\* s[start:stop], Python slice semantics with step 1
PySlice(s, start, stop) ==
    LET lo == IF start < 0 THEN Max(Len(s) + start, 0) ELSE Min(start, Len(s))
        hi == IF stop < 0 THEN Max(Len(s) + stop, 0) ELSE Min(stop, Len(s))
    IN  SubSeq(s, lo + 1, hi)

slice_sequences(df, start, end) ==
    Ok([i \in 1..Len(df) |-> Row(df[i].header, PySlice(df[i].sequence, start, end))])

\* ------------------------------------------------------------- dispatching
\* The possible results of the call op(df, a).
Call(f, df, a) ==
    CASE f = "adjust_depth" -> {adjust_depth(df, a.n)}
      [] f = "unify_length" -> {unify_length(df, a)}
      [] f = "filter_gaps" -> {filter_gaps(df, a.n, a.m)}
      [] f = "filter_identity" -> {filter_identity(df, a.n, a.m, a.kind)}
      [] f = "sort_gaps" -> sort_gaps(df, a.flag)
      [] f = "sort_identity" -> sort_identity(df, a.flag)
      [] f = "drop_duplicates" -> {drop_duplicates(df, a.flag)}
      [] f = "slice_sequences" -> {slice_sequences(df, a.n, a.m)}

\* unify_length and slice_sequences assign df["sequence"] in place and return
\* df itself.
InPlace(f) == f \in {"unify_length", "slice_sequences"}

DoCall(f, df, a) ==
    \E r \in Call(f, df, a) :
        /\ inp' = df
        /\ out' = r
        /\ op' = f
        /\ arg' = a
        /\ calls' = calls + 1
        /\ caller_df' = IF InPlace(f) /\ r.status = "ok" THEN r.rows ELSE df
        /\ UNCHANGED <<guiVars, otherVars>>

DepthArgs == {Arg("depth", d, 0, FALSE) : d \in (0 - MinInt)..MaxDepth}

LengthArgs ==
    {Arg(k, 0, 0, FALSE) : k \in {"first", "max", "min"}}
        \cup {Arg("int", n, 0, FALSE) : n \in (0 - MinInt)..MaxTarget}

\* thresholds num / FracDen, one below 0 and one above 1 included
FractionArgs(kind) == {Arg(kind, num, FracDen, FALSE) : num \in (0 - 1)..(FracDen + 1)}

IdentityArgs == UNION {FractionArgs(method) : method \in {"keep", "remove", "drop"}}

SortArgs == {Arg("sort", 0, 0, ascending) : ascending \in BOOLEAN}

KeepArgs == {Arg("keep_first", 0, 0, keep_first) : keep_first \in BOOLEAN}

SliceArgs == {Arg("slice", start, end, FALSE) : start \in 0..1, end \in (0 - 1)..MaxLen}

\* ------------------------------------------------------------ the GUI store
None == [none |-> TRUE]

\* a missing value of the sequence column (float NaN)
NaN == <<"NaN">>

\* The name of an alignment (a key of msa-data, the value of main-msa) is a
\* sequence of pieces of text, "a_2" being <<"a", "_", "2">>; the empty
\* sequence stands for main-msa = None.
\* Two uploaded alignments, of 2 and of 3 rows, with sequences of unequal
\* lengths.
StoredMsas ==
    [k \in {<<"a">>, <<"b">>} |->
        IF k = <<"a">> THEN Table(<< <<"M", "K">>, <<"V">> >>)
        ELSE Table(<< <<"A", "C">>, <<"D">>, <<"E", "F", "G">> >>)]

CombineIdle ==
    [pc |-> "idle", blocks |-> <<>>, i |-> 0, name |-> <<>>, combined_msa |-> None,
     before |-> None, msa |-> None, branch |-> "none", broke |-> FALSE]

\* no clustering call, A3M file, upload, edit, download or job yet
OthersInit ==
    /\ clus = None /\ a3m = None /\ upload = None
    /\ edit = None /\ aln = None /\ dl = None /\ backend = None /\ job = None

GuiInit ==
    /\ msa_data = StoredMsas
    /\ main_msa = <<"b">>
    /\ children = <<>>
    /\ combine = CombineIdle

\* ----------------------------------------------------------------- actions
Init ==
    /\ GuiInit
    /\ OthersInit
    /\ inp \in Tables
    /\ out = Ok(inp)
    /\ op = "none"
    /\ arg = NoArg
    /\ calls = 0
    /\ caller_df = inp

AdjustDepth == calls = 0 /\ \E a \in DepthArgs : DoCall("adjust_depth", inp, a)

UnifyLength == calls = 0 /\ \E a \in LengthArgs : DoCall("unify_length", inp, a)

FilterGaps == calls = 0 /\ \E a \in FractionArgs("fraction") : DoCall("filter_gaps", inp, a)

FilterIdentity == calls = 0 /\ \E a \in IdentityArgs : DoCall("filter_identity", inp, a)

SortGaps == calls = 0 /\ \E a \in SortArgs : DoCall("sort_gaps", inp, a)

SortIdentity == calls = 0 /\ \E a \in SortArgs : DoCall("sort_identity", inp, a)

DropDuplicates == calls = 0 /\ \E a \in KeepArgs : DoCall("drop_duplicates", inp, a)

SliceSequences == calls = 0 /\ \E a \in SliceArgs : DoCall("slice_sequences", inp, a)

\* f(f(T, a), a): the caller passes the returned table to the same call again.
Reapply ==
    /\ calls >= 1
    /\ calls < MaxCalls
    /\ out.status = "ok"
    /\ DoCall(op, out.rows, arg)

Next ==
    \/ AdjustDepth
    \/ UnifyLength
    \/ FilterGaps
    \/ FilterIdentity
    \/ SortGaps
    \/ SortIdentity
    \/ DropDuplicates
    \/ SliceSequences
    \/ Reapply

Spec == Init /\ [][Next]_vars

\* ============================================================ combine_msas
MaxBlocks == 2

\* a DataFrame with its index labels
Frame(index, rows) == [index |-> index, rows |-> rows]

RangeIndex(n) == [i \in 1..n |-> i - 1]

\* DataFrame.from_dict of a stored {"header": [..], "sequence": [..]}
from_dict(t) == Frame(RangeIndex(Len(t)), t)

\* df.iloc[lo:hi]: the rows keep their index labels
iloc_slice(f, lo, hi) == Frame(PySlice(f.index, lo, hi), PySlice(f.rows, lo, hi))

\* x + y of str.cat: a missing value on either side gives a missing value
Cat(x, y) == IF x = NaN \/ y = NaN THEN NaN ELSE x \o y

LabelPos(index, label) == CHOOSE j \in 1..Len(index) : index[j] = label

HasLabel(index, label) == \E j \in 1..Len(index) : index[j] = label

\* self["sequence"].str.cat(others["sequence"], sep=""): when the two indexes
\* differ, others is aligned on the labels of self (join="left").
str_cat(self, others) ==
    [i \in 1..Len(self.rows) |->
        IF self.index = others.index
        THEN Cat(self.rows[i].sequence, others.rows[i].sequence)
        ELSE IF HasLabel(others.index, self.index[i])
        THEN Cat(self.rows[i].sequence,
                 others.rows[LabelPos(others.index, self.index[i])].sequence)
        ELSE NaN]

\* a block of the container with the selections of its widgets; the sliders'
\* max is set from the selected alignment when the dropdown changes
combine_msa_block(selected, direction, hvalue, vvalue) ==
    [type |-> "Block", selected |-> selected, add_direction |-> direction,
     horizontal_index |-> [value |-> hvalue, min |-> 0,
                           max |-> SetMax(SeqLens(msa_data[selected]))],
     vertical_index |-> [value |-> vvalue, min |-> 0, max |-> Len(msa_data[selected])]]

nothing_to_combine ==
    [type |-> "Alert", selected |-> <<>>, add_direction |-> "",
     horizontal_index |-> [value |-> <<0, 0>>, min |-> 0, max |-> 0],
     vertical_index |-> [value |-> <<0, 0>>, min |-> 0, max |-> 0]]

\* [i for i in children if i["type"] != "Alert"]
WithoutAlerts(cs) == SelectSeq(cs, LAMBDA c : c.type # "Alert")

\* the ranges a user sets on a slider of maximum m
SliderValues(m) == {<<0, m>>, <<1, m>>, <<0, m - 1>>}

Blocks ==
    UNION {{combine_msa_block(k, d, hv, vv) :
                d \in {"horizontal", "vertical"},
                hv \in SliderValues(SetMax(SeqLens(msa_data[k]))),
                vv \in SliderValues(Len(msa_data[k]))} : k \in DOMAIN msa_data}

\* str(n) of a number below 10
str(n) == <<"0", "1", "2", "3", "4", "5", "6", "7", "8", "9">>[n + 1]

\* name.startswith(prefix)
startswith(name, prefix) ==
    Len(prefix) <= Len(name) /\ SubSeq(name, 1, Len(prefix)) = prefix

\* the name typed into combine-msa-name, or f"combined_{count_combined + 1}"
ResolveName(name) ==
    IF name # <<>> THEN name
    ELSE LET count_combined ==
                 Cardinality({k \in DOMAIN msa_data : startswith(k, <<"combined">>)})
         IN  <<"combined", "_", str(count_combined + 1)>>

\* lines 388-408: the block's table, sliced as its sliders say
BlockMsa(block) ==
    LET msa0 == from_dict(msa_data[block.selected])
        h == block.horizontal_index
        v == block.vertical_index
        msa1 == IF h.min = h.value[1] /\ h.max = h.value[2] THEN msa0
                ELSE Frame(msa0.index, slice_sequences(msa0.rows, h.value[1], h.value[2]).rows)
    IN  IF v.min = v.value[1] /\ v.max = v.value[2] THEN msa1
        ELSE iloc_slice(msa1, v.value[1], v.value[2])

\* combined_msa["sequence"] = sequences
WithSequences(f, sequences) ==
    Frame(f.index, [i \in 1..Len(f.rows) |-> Row(f.rows[i].header, sequences[i])])

\* line 428, int(combined_msa["sequence"].str.len()[0]): [0] looks up the
\* index label 0; the length of a missing value is NaN
FirstLengthStatus(f) ==
    IF ~HasLabel(f.index, 0) THEN "KeyError"
    ELSE IF f.rows[LabelPos(f.index, 0)].sequence = NaN THEN "ValueError"
    ELSE "ok"

FirstLength(f) == Len(f.rows[LabelPos(f.index, 0)].sequence)

\* pd.concat([combined_msa, msa], axis=0).reset_index(drop=True)
concat_reset(f, g) == Frame(RangeIndex(Len(f.rows) + Len(g.rows)), f.rows \o g.rows)

\* adjust_depth(msa, depth) with its index: extend_to_depth renumbers the rows
\* (ignore_index), crop_to_depth keeps the labels of the first rows
adjusted_frame(msa, depth) ==
    IF Len(msa.rows) < depth THEN from_dict(adjust_depth(msa.rows, depth).rows)
    ELSE Frame(iloc_head(msa.index, depth), adjust_depth(msa.rows, depth).rows)

\* One iteration of the loop of lines 387-430 for the block after the i
\* processed ones: the locals afterwards.
LoopBody(c, block) ==
    LET msa == BlockMsa(block)
        total == c.combined_msa
        at == [c EXCEPT !.i = c.i + 1, !.before = total, !.msa = msa]
    IN  IF total = None
        THEN [at EXCEPT !.combined_msa = msa, !.branch = "first"]
        ELSE IF block.add_direction = "horizontal"
        THEN IF Len(msa.rows) # Len(total.rows)
             THEN LET r == adjust_depth(msa.rows, Len(total.rows))
                  IN  IF r.status # "ok"
                      THEN [at EXCEPT !.pc = "raised", !.branch = r.status]
                      ELSE [at EXCEPT !.msa = adjusted_frame(msa, Len(total.rows)),
                                      !.branch = "break", !.broke = TRUE]
             ELSE [at EXCEPT !.combined_msa = WithSequences(total, str_cat(total, msa)),
                             !.branch = "str.cat"]
        ELSE IF FirstLengthStatus(total) # "ok"
        THEN [at EXCEPT !.pc = "raised", !.branch = FirstLengthStatus(total)]
        ELSE LET unified == unify_length(msa.rows, Arg("int", FirstLength(total), 0, FALSE))
             IN  [at EXCEPT !.combined_msa =
                                concat_reset(total, Frame(msa.index, unified.rows)),
                            !.msa = Frame(msa.index, unified.rows),
                            !.branch = "concat"]

\* ---- the callbacks of the combine page
\* add_combine_msa_block, followed by the user's selections in the new block
AddCombineBlock ==
    /\ combine.pc = "idle"
    /\ Len(children) < MaxBlocks
    /\ \E block \in Blocks : children' = WithoutAlerts(children) \o <<block>>
    /\ UNCHANGED <<toolVars, otherVars, msa_data, main_msa, combine>>

remove_combine_msa_block ==
    /\ combine.pc = "idle"
    /\ children' = IF Len(children) >= 1 THEN SubSeq(children, 1, Len(children) - 1)
                   ELSE children
    /\ UNCHANGED <<toolVars, otherVars, msa_data, main_msa, combine>>

\* lines 371-386: the click on combine-msas-button
CombineClick ==
    /\ combine.pc = "idle"
    /\ \E name \in {<<>>, <<"x">>} :
        IF Len(WithoutAlerts(children)) = 0
        THEN /\ Len(children) < MaxBlocks
             /\ children' = children \o <<nothing_to_combine>>
             /\ UNCHANGED combine
        ELSE /\ combine' = [CombineIdle EXCEPT !.pc = "loop", !.name = ResolveName(name),
                                               !.blocks = WithoutAlerts(children)]
             /\ UNCHANGED children
    /\ UNCHANGED <<toolVars, otherVars, msa_data, main_msa>>

\* lines 387-430: one block
CombineBlock ==
    /\ combine.pc = "loop"
    /\ ~combine.broke
    /\ combine.i < Len(combine.blocks)
    /\ combine' = LoopBody(combine, combine.blocks[combine.i + 1])
    /\ UNCHANGED <<toolVars, otherVars, msa_data, main_msa, children>>

\* lines 432-433, after the last block or after the break
CombineReturn ==
    /\ combine.pc = "loop"
    /\ combine.broke \/ combine.i = Len(combine.blocks)
    /\ msa_data' = [k \in DOMAIN msa_data \cup {combine.name} |->
                       IF k = combine.name THEN combine.combined_msa.rows ELSE msa_data[k]]
    /\ main_msa' = combine.name
    /\ combine' = [combine EXCEPT !.pc = "returned"]
    /\ UNCHANGED <<toolVars, otherVars, children>>

ToolsIdle ==
    /\ inp = <<>>
    /\ out = Ok(<<>>)
    /\ op = "none"
    /\ arg = NoArg
    /\ calls = 0
    /\ caller_df = <<>>

InitCombine == ToolsIdle /\ GuiInit /\ OthersInit

NextCombine ==
    \/ AddCombineBlock
    \/ remove_combine_msa_block
    \/ CombineClick
    \/ CombineBlock
    \/ CombineReturn

SpecCombine == InitCombine /\ [][NextCombine]_vars

\* ============================================================== clustering
\* The tables handed to a clustering call (DataFrames with a header and a
\* sequence column), tables of fewer than 2 rows and of empty sequences included.
ClusterTables ==
    {Table(f) : f \in UNION {[1..n -> {<<>>, <<"A">>, <<"A", "-">>}] : n \in 0..(MaxRows + 1)}}

\* What can be in the auxiliary column "w" of the table: nothing (no such
\* column), numbers, text such as "x", or numbers written as text such as "1".
AuxKinds == {"absent", "numeric", "text", "numeric_text"}

ClusterCall(fn, msa, aux, n_clusters, columns, sequence_encoding) ==
    [fn |-> fn, msa |-> msa, aux |-> aux, n_clusters |-> n_clusters,
     columns |-> columns, sequence_encoding |-> sequence_encoding]

\* How a call ended: its exception or "ok", the returned rows, the steps that
\* ran, and whether the caller's table now has a cluster_id column.
ClusterResult(status, rows, steps, caller_cluster_id) ==
    [status |-> status, rows |-> rows, steps |-> steps,
     caller_cluster_id |-> caller_cluster_id]

\* rejects only an empty table
precheck_data_nonempty(msa) == IF Len(msa) < 1 THEN "ValueError" ELSE "ok"

\* BaseClusterer._precheck_data on a DataFrame that has a sequence column
precheck_data(msa) == IF Len(msa) < 2 THEN "ValueError" ELSE "ok"

\* a label may be one above the range
fit_predict_one_based(n_samples, n_features, n_clusters, convertible) ==
    IF n_clusters < 1 THEN {[status |-> "InvalidParameterError", labels |-> <<>>]}
    ELSE IF ~convertible \/ n_features < 1 \/ n_samples < n_clusters
    THEN {[status |-> "ValueError", labels |-> <<>>]}
    ELSE {[status |-> "ok", labels |-> l] : l \in [1..n_samples -> 1..n_clusters]}

\* sklearn.cluster.KMeans(n_clusters).fit_predict(X) for X of n_samples rows
\* and n_features columns: the parameter and input validation, then one label
\* of 0 .. n_clusters - 1 per row.  X of dtype object is converted cell by
\* cell with float(), which fails on text that is no number.
fit_predict(n_samples, n_features, n_clusters, convertible) ==
    IF n_clusters < 1 THEN {[status |-> "InvalidParameterError", labels |-> <<>>]}
    ELSE IF ~convertible \/ n_features < 1 \/ n_samples < n_clusters
    THEN {[status |-> "ValueError", labels |-> <<>>]}
    ELSE {[status |-> "ok", labels |-> l] : l \in [1..n_samples -> 0..(n_clusters - 1)]}

\* msa[CLUSTER_ID_COL] = labels; msa.reset_index(drop=True)
WithClusterId(msa, labels) ==
    [i \in 1..Len(msa) |->
        [header |-> msa[i].header, sequence |-> msa[i].sequence, cluster_id |-> labels[i]]]

\* KMeans.cluster(c.msa, c.n_clusters, ["w"] if c.columns else None,
\* c.sequence_encoding): the possible results
KMeans_cluster(c) ==
    LET max_length == SetMax(SeqLens(c.msa))
        width == IF c.sequence_encoding = "onehot" THEN max_length * 22 ELSE max_length
        n_features == width + (IF c.columns THEN 1 ELSE 0)
        fits == fit_predict(Len(c.msa), n_features, c.n_clusters,
                            ~c.columns \/ c.aux # "text")
    IN  IF precheck_data(c.msa) # "ok"
        THEN {ClusterResult(precheck_data(c.msa), <<>>, <<"precheck">>, FALSE)}
        ELSE IF c.sequence_encoding \notin {"onehot", "numvector"}
        THEN {ClusterResult("ValueError", <<>>, <<"precheck">>, FALSE)}
        ELSE IF c.sequence_encoding = "onehot" /\ max_length = 0
        THEN {ClusterResult("ValueError", <<>>, <<"precheck", "encode">>, FALSE)}
        ELSE IF c.columns /\ c.aux = "absent"
        THEN {ClusterResult("ValueError", <<>>, <<"precheck", "encode">>, FALSE)}
        ELSE {IF r.status # "ok"
              THEN ClusterResult(r.status, <<>>, <<"precheck", "encode", "fit_predict">>,
                                 FALSE)
              ELSE ClusterResult("ok", WithClusterId(c.msa, r.labels),
                                 <<"precheck", "encode", "fit_predict">>, TRUE) : r \in fits}

\* AFCluster._precheck_data, inherited from the afcluster package: input of
\* fewer than 2 rows is rejected
afcluster_precheck(msa) == IF Len(msa) < 2 THEN "ValueError" ELSE "ok"

\* afcluster(c.msa, eps=None): the precheck, then the grid search for eps and
\* the DBSCAN clustering of the afcluster package, which either fail or label
\* every row with a cluster or with the noise label -1.
afcluster(c) ==
    IF afcluster_precheck(c.msa) # "ok"
    THEN {ClusterResult(afcluster_precheck(c.msa), <<>>, <<"precheck">>, FALSE)}
    ELSE {ClusterResult("ok", WithClusterId(c.msa, l),
                        <<"precheck", "gridsearch_eps", "cluster">>, FALSE) :
              l \in [1..Len(c.msa) -> {0 - 1, 0}]}
         \cup {ClusterResult("Exception", <<>>,
                             <<"precheck", "gridsearch_eps", "cluster">>, FALSE)}

KMeansCluster ==
    /\ clus = None
    /\ \E msa \in ClusterTables, aux \in AuxKinds, n_clusters \in 0..(MaxRows + 2),
          columns \in BOOLEAN, sequence_encoding \in {"onehot", "numvector", "other"} :
        LET c == ClusterCall("kmeans", msa, aux, n_clusters, columns, sequence_encoding)
        IN  \E r \in KMeans_cluster(c) : clus' = [call |-> c, result |-> r]
    /\ UNCHANGED <<toolVars, guiVars, a3m, upload, edit, aln, dl, backend, job>>

AfCluster ==
    /\ clus = None
    /\ \E msa \in ClusterTables :
        LET c == ClusterCall("afcluster", msa, "absent", 0, FALSE, "onehot")
        IN  \E r \in afcluster(c) : clus' = [call |-> c, result |-> r]
    /\ UNCHANGED <<toolVars, guiVars, a3m, upload, edit, aln, dl, backend, job>>

InitCluster == ToolsIdle /\ GuiInit /\ OthersInit

NextCluster == KMeansCluster \/ AfCluster

SpecCluster == InitCluster /\ [][NextCluster]_vars

\* ====================================================== A3M files (fileio)
\* A file's text is a sequence of characters, "\n" among them.  The tables
\* written: headers and sequences with blanks, ">" and line breaks in them,
\* the empty header and the empty sequence included.
A3MTables ==
    LET headers == {<<>>, <<"h">>, <<" ", "h", " ">>, <<">", "h">>, <<"h", "\n", "A">>}
        sequences == {<<>>, <<"A", "-">>, <<"a">>, <<" ", "A">>, <<">", "A">>}
        rows == {Row(h, q) : h \in headers, q \in sequences}
    IN  UNION {[1..n -> rows] : n \in 0..MaxRows}

\* write_a3m for a table with a header column: ">header\nsequence\n" per row
RECURSIVE write_a3m(_)
write_a3m(df) ==
    IF df = <<>> THEN <<>>
    ELSE <<">">> \o df[1].header \o <<"\n">> \o df[1].sequence \o <<"\n">>
             \o write_a3m(Tail(df))

\* for line in f: the text cut after every "\n"
RECURSIVE Lines(_)
Lines(text) ==
    IF text = <<>> THEN <<>>
    ELSE IF \E k \in 1..Len(text) : text[k] = "\n"
    THEN LET k == CHOOSE k \in 1..Len(text) :
                      text[k] = "\n" /\ \A j \in 1..(k - 1) : text[j] # "\n"
         IN  <<SubSeq(text, 1, k)>> \o Lines(SubSeq(text, k + 1, Len(text)))
    ELSE <<text>>

\* str.strip()
strip(s) ==
    LET I == {i \in 1..Len(s) : s[i] \notin {" ", "\n"}}
    IN  IF I = {} THEN <<>> ELSE SubSeq(s, SetMin(I), SetMax(I))

\* blank lines are skipped
read_a3m_skip_blank(text) ==
    LET lines == SelectSeq([i \in 1..Len(Lines(text)) |-> strip(Lines(text)[i])],
                           LAMBDA l : l # <<>>)
        headers == SelectSeq(lines, LAMBDA l : l[1] = ">")
        sequences == SelectSeq(lines, LAMBDA l : l[1] # ">")
    IN  IF Len(headers) # Len(sequences) THEN Raise("ValueError")
        ELSE Ok([i \in 1..Len(headers) |-> Row(Tail(headers[i]), sequences[i])])

\* read_a3m: the stripped lines that start with ">" give the headers, all
\* other lines the sequences; pd.DataFrame raises when the two lists differ
\* in length
read_a3m(text) ==
    LET lines == [i \in 1..Len(Lines(text)) |-> strip(Lines(text)[i])]
        IsHeader(l) == l # <<>> /\ l[1] = ">"
        headers == SelectSeq(lines, IsHeader)
        sequences == SelectSeq(lines, LAMBDA l : ~IsHeader(l))
    IN  IF Len(headers) # Len(sequences) THEN Raise("ValueError")
        ELSE Ok([i \in 1..Len(headers) |-> Row(Tail(headers[i]), sequences[i])])

WriteA3M ==
    /\ a3m = None
    /\ \E df \in A3MTables : a3m' = [pc |-> "written", df |-> df, text |-> write_a3m(df)]
    /\ UNCHANGED <<toolVars, guiVars, clus, upload, edit, aln, dl, backend, job>>

ReadA3M ==
    /\ a3m # None
    /\ a3m.pc = "written"
    /\ a3m' = [pc |-> "read", df |-> a3m.df, text |-> a3m.text, out |-> read_a3m(a3m.text)]
    /\ UNCHANGED <<toolVars, guiVars, clus, upload, edit, aln, dl, backend, job>>

InitA3M == ToolsIdle /\ GuiInit /\ OthersInit

NextA3M == WriteA3M \/ ReadA3M

SpecA3M == InitA3M /\ [][NextA3M]_vars

\* ======================================================= upload (file.py)
\* DataFrame.to_dict(): one entry per column
to_dict(rows) ==
    [header |-> [i \in 1..Len(rows) |-> rows[i].header],
     sequence |-> [i \in 1..Len(rows) |-> rows[i].sequence]]

\* The uploads: the file's name and what it holds.  The text of an alignment
\* file goes through read_a3m; a CSV file is given by the table pd.read_csv
\* makes of it, "EmptyDataError" when it makes none.
Uploads ==
    LET texts == {<<>>, <<">", "h", "\n">>,
                  write_a3m(<<Row(<<"h">>, <<"A", "-">>)>>),
                  write_a3m(<<Row(<<"q">>, <<"A">>), Row(<<>>, <<>>)>>)}
        csvs == {[status |-> "ok", msa |-> to_dict(<<Row(<<"h">>, <<"A">>)>>)],
                 [status |-> "ok", msa |-> [sequence |-> << <<"A">>, <<"-">> >>]],
                 [status |-> "ok", msa |-> [name |-> << <<"h">> >>, seq |-> << <<"A">> >>]],
                 [status |-> "ok", msa |-> [Sequence |-> << <<"A">> >>]],
                 [status |-> "EmptyDataError", msa |-> <<>>]}
    IN  {[filename |-> f, suffix |-> "a3m", text |-> t] :
             f \in {<<"m", ".a3m">>, <<"m", ".fasta">>, <<"m", ".fa">>}, t \in texts}
        \cup {[filename |-> <<"t", ".csv">>, suffix |-> "csv", read_csv |-> c] : c \in csvs}
        \cup {[filename |-> <<"t", ".txt">>, suffix |-> "other"],
              [filename |-> <<>>, suffix |-> "no contents"]}

\* what the callback hands to Dash: the upload-status children, and main-msa
\* and msa-data unless they are dash.no_update
Returned(status, update, main, data) ==
    [children |-> status, update |-> update, main_msa |-> main, msa_data |-> data]

Registered(store, filename, msa) ==
    [k \in DOMAIN store \cup {filename} |-> IF k = filename THEN msa ELSE store[k]]

\* without the test for the sequence column
upload_file_unchecked(u, store) ==
    IF u.suffix = "csv" /\ u.read_csv.status = "ok"
    THEN Returned("success_message", TRUE, u.filename,
                  Registered(store, u.filename, u.read_csv.msa))
    ELSE Returned("upload-error", FALSE, <<>>, store)

\* upload_file(contents, filename, msa_data)
upload_file(u, store) ==
    CASE u.suffix = "no contents" -> Returned("no_update", FALSE, <<>>, store)
      [] u.suffix = "other" -> Returned("upload-error", FALSE, <<>>, store)
      [] u.suffix = "a3m" ->
            IF read_a3m(u.text).status # "ok"
            THEN Returned(read_a3m(u.text).status, FALSE, <<>>, store)
            ELSE Returned("success_message", TRUE, u.filename,
                          Registered(store, u.filename, to_dict(read_a3m(u.text).rows)))
      [] u.suffix = "csv" ->
            IF u.read_csv.status # "ok"
            THEN Returned(u.read_csv.status, FALSE, <<>>, store)
            ELSE IF "sequence" \notin DOMAIN u.read_csv.msa
            THEN Returned("upload-error", FALSE, <<>>, store)
            ELSE Returned("success_message", TRUE, u.filename,
                          Registered(store, u.filename, u.read_csv.msa))

\* A file is dropped on upload-data; Dash writes the returned values to the
\* outputs, leaving an output at dash.no_update (or all, if the callback
\* raised) as it was.
UploadFile ==
    /\ \E u \in Uploads :
        LET r == upload_file(u, msa_data)
        IN  /\ upload' = [file |-> u, children |-> r.children]
            /\ main_msa' = IF r.update THEN r.main_msa ELSE main_msa
            /\ msa_data' = IF r.update THEN r.msa_data ELSE msa_data
    /\ UNCHANGED <<toolVars, children, combine, clus, a3m, edit, aln, dl, backend, job>>

\* the stores as app.py creates them: msa-data = {}, main-msa = None
InitUpload ==
    /\ ToolsIdle
    /\ OthersInit
    /\ msa_data = <<>>
    /\ main_msa = <<>>
    /\ children = <<>>
    /\ combine = CombineIdle

NextUpload == UploadFile

SpecUpload == InitUpload /\ [][NextUpload]_vars

\* ================================================ the msa-data store (GUI)
MaxKeys == 3
MaxNameLen == 4

\* msa_data without the key name (pop, del)
Without(store, name) == [k \in DOMAIN store \ {name} |-> store[k]]

clear_msa_data(n_clicks) ==
    IF n_clicks > 0 THEN Returned("cleared", TRUE, <<>>, <<>>)
    ELSE Returned("no_update", FALSE, <<>>, <<>>)

\* delete_msa_data; next(iter(msa_data.keys())) is any of the keys left, the
\* store being kept without an order here
delete_msa_data(n_clicks, msa_name, main, store) ==
    IF n_clicks <= 0 THEN {Returned("no_update", FALSE, <<>>, store)}
    ELSE IF main # msa_name THEN {Returned("deleted", TRUE, main, Without(store, msa_name))}
    ELSE IF DOMAIN Without(store, msa_name) = {}
    THEN {Returned("deleted", TRUE, <<>>, Without(store, msa_name))}
    ELSE {Returned("deleted", TRUE, k, Without(store, msa_name)) :
              k \in DOMAIN Without(store, msa_name)}

\* copy_msa; msa_data[main_msa] raises KeyError for a name that is no key
copy_msa(n_clicks, main, store) ==
    IF n_clicks <= 0 \/ DOMAIN store = {} \/ main = <<>>
    THEN Returned("no_update", FALSE, <<>>, store)
    ELSE IF main \notin DOMAIN store THEN Returned("KeyError", FALSE, <<>>, store)
    ELSE LET n_present == Cardinality({i \in DOMAIN store : startswith(i, main)})
             new_msa_name == main \o <<"_", str(n_present + 1)>>
         IN  Returned("copied", TRUE, new_msa_name,
                      Registered(store, new_msa_name, store[main]))

\* rename_msa
rename_msa(n_clicks, new_name, main, store) ==
    IF n_clicks <= 0 \/ DOMAIN store = {} THEN Returned("no_update", FALSE, <<>>, store)
    ELSE IF main \notin DOMAIN store THEN Returned("KeyError", FALSE, <<>>, store)
    ELSE Returned("renamed", TRUE, new_name,
                  Without(Registered(store, new_name, store[main]), main))

\* combine_msas for a container with one block that selects an alignment and
\* leaves the sliders at their full ranges: the alignment is registered under
\* the resolved name
combine_one_block(name, selected, store) ==
    Returned("combined", TRUE, ResolveName(name),
             Registered(store, ResolveName(name), store[selected]))

\* Dash writes the returned values to main-msa and msa-data
Fire(r) ==
    /\ main_msa' = IF r.update THEN r.main_msa ELSE main_msa
    /\ msa_data' = IF r.update THEN r.msa_data ELSE msa_data
    /\ UNCHANGED <<toolVars, children, combine, otherVars>>

\* the clicks on the buttons, with select-main-msa showing main-msa; at most
\* MaxKeys alignments are kept, with names of at most MaxNameLen pieces
NextStore ==
    \/ Fire(clear_msa_data(1))
    \/ \E r \in delete_msa_data(1, main_msa, main_msa, msa_data) : Fire(r)
    \/ /\ Cardinality(DOMAIN msa_data) < MaxKeys
       /\ Len(main_msa) + 2 <= MaxNameLen
       /\ Fire(copy_msa(1, main_msa, msa_data))
    \/ \E new_name \in {main_msa, <<"x">>} \ {<<>>} :
           Fire(rename_msa(1, new_name, main_msa, msa_data))
    \/ \E new_main_msa \in DOMAIN msa_data :
           Fire(Returned("selected", TRUE, new_main_msa, msa_data))
    \/ /\ Cardinality(DOMAIN msa_data) < MaxKeys
       /\ \E name \in {<<>>, <<"x">>}, selected \in DOMAIN msa_data :
              Fire(combine_one_block(name, selected, msa_data))
    \/ /\ Cardinality(DOMAIN msa_data) < MaxKeys
       /\ UploadFile
       /\ upload'.file.filename = <<"m", ".a3m">>
       /\ upload'.file.text = write_a3m(<<Row(<<"h">>, <<"A", "-">>)>>)

InitStore == ToolsIdle /\ GuiInit /\ OthersInit

SpecStore == InitStore /\ [][NextStore]_vars

\* ============================================== the edit callbacks (GUI)
MaxClicks == 1

Buttons == {"slice", "depth", "rename", "sort"}

\* what can be entered: slider ranges, depths, names, sort orders
Values(b) ==
    CASE b = "slice" -> {<<0, 0>>, <<0, 1>>, <<1, 2>>}
      [] b = "depth" -> {1, 3}
      [] b = "rename" -> {<<"x">>, <<"y">>}
      [] b = "sort" -> {"asc", "desc"}

\* the edit page before any click: the slider and the radio as laid out, a
\* depth and a name typed in (typing before a click runs the callbacks with
\* n_clicks None, which return no_update)
EditState ==
    IF edit # None THEN edit
    ELSE [n_clicks |-> [b \in Buttons |-> 0],
          value |-> [b \in Buttons |->
                        CASE b = "slice" -> <<0, 0>> [] b = "depth" -> 1
                          [] b = "rename" -> <<"x">> [] b = "sort" -> "desc"]]

\* msa_data[main_msa] = new.to_dict("list"); return msa_data -- nothing is
\* returned when the transform raised
Stored(outcomes, main, store) ==
    {IF r.status = "ok" THEN Returned("stored", TRUE, main, Registered(store, main, r.rows))
     ELSE Returned(r.status, FALSE, main, store) : r \in outcomes}

slice_msa(n_clicks, range_value, main, store) ==
    IF n_clicks <= 0 \/ DOMAIN store = {} THEN {Returned("no_update", FALSE, main, store)}
    ELSE IF main \notin DOMAIN store THEN {Returned("KeyError", FALSE, main, store)}
    ELSE Stored({slice_sequences(store[main], range_value[1], range_value[2])}, main, store)

set_depth(n_clicks, depth, main, store) ==
    IF n_clicks <= 0 \/ DOMAIN store = {} THEN {Returned("no_update", FALSE, main, store)}
    ELSE IF main \notin DOMAIN store THEN {Returned("KeyError", FALSE, main, store)}
    ELSE Stored({adjust_depth(store[main], depth)}, main, store)

sort_by_identity(n_clicks, sort_order, main, store) ==
    IF n_clicks <= 0 \/ DOMAIN store = {} \/ main = <<>>
    THEN {Returned("no_update", FALSE, main, store)}
    ELSE IF main \notin DOMAIN store THEN {Returned("KeyError", FALSE, main, store)}
    ELSE Stored(sort_identity(store[main], sort_order = "asc"), main, store)

\* the callback that has the button b and its field as Inputs
Callback(b, n_clicks, value) ==
    CASE b = "slice" -> slice_msa(n_clicks, value, main_msa, msa_data)
      [] b = "depth" -> set_depth(n_clicks, value, main_msa, msa_data)
      [] b = "rename" -> {rename_msa(n_clicks, value, main_msa, msa_data)}
      [] b = "sort" -> sort_by_identity(n_clicks, value, main_msa, msa_data)

\* Dash runs the callback of an Input that changed, with the Inputs as they
\* are after the event, and writes what it returns
EditEvent(b, e) ==
    /\ edit' = e
    /\ \E r \in Callback(b, e.n_clicks[b], e.value[b]) :
           /\ main_msa' = IF r.update THEN r.main_msa ELSE main_msa
           /\ msa_data' = IF r.update THEN r.msa_data ELSE msa_data
    /\ UNCHANGED <<toolVars, children, combine, clus, a3m, upload, aln, dl, backend, job>>

ClickButton ==
    \E b \in Buttons :
        /\ EditState.n_clicks[b] < MaxClicks
        /\ EditEvent(b, [EditState EXCEPT !.n_clicks[b] = @ + 1])

ChangeValue ==
    \E b \in Buttons : \E v \in Values(b) \ {EditState.value[b]} :
        EditEvent(b, [EditState EXCEPT !.value[b] = v])

NextEdit == ClickButton \/ ChangeValue

SpecEdit == InitStore /\ [][NextEdit]_vars

\* ================================================ A3MAlignment.to_depth
\* A3MAlignment(df): the query column holds the first header
A3MAlignment(df) ==
    [i \in 1..Len(df) |->
        [header |-> df[i].header, sequence |-> df[i].sequence, query |-> df[1].header]]

\* to_depth(n, extend, crop) on the table df of an alignment
to_depth(df, n, extend, crop) ==
    LET gap(i, row) == [row EXCEPT !.header = <<"gap", "_", str(i - 1)>>]
    IN  IF Len(df) < n
        THEN CASE extend = "repeat" ->
                    LET incoming == PySlice(df, 0, n - Len(df))
                    IN  Ok(df \o [i \in 1..Len(incoming) |-> gap(i, incoming[i])])
               [] extend = "patch" ->
                    LET seq == [j \in 1..Len(df[1].sequence) |-> "-"]
                    IN  Ok(df \o [i \in 1..(n - Len(df)) |->
                                     gap(i, [header |-> <<>>, sequence |-> seq,
                                             query |-> df[1].query])])
               [] OTHER -> Raise("ValueError")
        ELSE IF Len(df) > n /\ crop THEN Ok(iloc_head(df, n))
        ELSE Ok(df)

\* an alignment of one to MaxRows sequences is made
FromSequences ==
    /\ aln = None
    /\ \E t \in RandomTables :
           /\ Len(t) >= 1
           /\ aln' = [df |-> A3MAlignment(t), op |-> "from_sequences", before |-> <<>>,
                      n |-> 0, extend |-> "", crop |-> FALSE, status |-> "ok"]
    /\ UNCHANGED <<toolVars, guiVars, clus, a3m, upload, edit, dl, backend, job>>

\* to_depth is called on the alignment; self.df is replaced unless it raises
ToDepth ==
    /\ aln # None
    /\ \E n \in 1..MaxDepth, extend \in {"repeat", "patch", "tile"}, crop \in BOOLEAN :
           LET r == to_depth(aln.df, n, extend, crop)
           IN  aln' = [df |-> IF r.status = "ok" THEN r.rows ELSE aln.df, op |-> "to_depth",
                       before |-> aln.df, n |-> n, extend |-> extend, crop |-> crop,
                       status |-> r.status]
    /\ UNCHANGED <<toolVars, guiVars, clus, a3m, upload, edit, dl, backend, job>>

NextDepth == FromSequences \/ ToDepth

SpecDepth == InitStore /\ [][NextDepth]_vars

\* ===================== DownloadableSequenceGenerator.download_from_url
\* download_from_url(overwrite) of a generator whose local_path has the given
\* suffix; file is what is at local_path ("absent" for nothing): the exception
\* ("ok" for none) and what is at local_path afterwards
download_from_url(file, suffix, overwrite, response) ==
    IF file # "absent" /\ ~overwrite THEN [status |-> "FileExistsError", file |-> file]
    ELSE IF response.raised THEN [status |-> "ConnectionError", file |-> "absent"]
    ELSE CASE suffix \in {"zip", "gz"} ->
                 IF response.content = "archive" THEN [status |-> "ok", file |-> "absent"]
                 ELSE [status |-> "BadArchive", file |-> response.content]
           [] suffix = "tar" -> [status |-> "TypeError", file |-> response.content]
           [] OTHER -> [status |-> "NotImplementedError", file |-> response.content]

\* download(force) with remote_url and local_path set, remote_url no git URL
download(file, suffix, force, response) ==
    IF file # "absent" /\ ~force THEN [status |-> "ok", file |-> file]
    ELSE download_from_url(file, suffix, force, response)

\* a call of download (init) or of download_from_url on a generator; the file
\* system keeps what the call before left at local_path.  requests.get raises,
\* or gives a response whose body is an archive of the suffix's kind or
\* something else (an error page)
Download ==
    \E f \in {"download", "download_from_url"}, suffix \in {"zip", "gz", "tar", "bin", ""},
       overwrite \in BOOLEAN,
       response \in {[raised |-> TRUE, status_code |-> 0, content |-> "absent"]}
                        \cup {[raised |-> FALSE, status_code |-> c, content |-> b] :
                                  c \in {200, 404}, b \in {"archive", "html"}} :
        LET file == IF dl = None THEN "absent" ELSE dl.file
            r == IF f = "download" THEN download(file, suffix, overwrite, response)
                 ELSE download_from_url(file, suffix, overwrite, response)
        IN  /\ dl' = [op |-> f, suffix |-> suffix, overwrite |-> overwrite,
                      response |-> response, before |-> file,
                      status |-> r.status, file |-> r.file]
            /\ UNCHANGED <<toolVars, guiVars, clus, a3m, upload, edit, aln, backend, job>>

NextDownload == Download

SpecDownload == InitStore /\ [][NextDownload]_vars

\* ======================================== the default sequence generator
MaxInstances == 3
MaxGets == 3

\* generator classes: BiolibProteinMPNN (no needs_init attribute), a
\* DownloadableSequenceGenerator subclass and a subclass of that one
isinstance(x, c) == x.cls = c \/ (x.cls = "Sub" /\ c = "Downloadable")

\* the module's globals, with what the calls since the last set have done:
\* the instances returned, the number of instances made and of init() calls
BackendState ==
    IF backend # None THEN backend
    ELSE [default_generator_class |-> "BiolibProteinMPNN", default_generator |-> None,
          made |-> 0, gets |-> 0, returned |-> {}, constructed |-> 0, inits |-> 0,
          status |-> "ok"]

\* the cached generator is kept whatever class is set
set_backend_keep_cached(s, x) ==
    LET t == [s EXCEPT !.gets = 0, !.returned = {}, !.constructed = 0, !.inits = 0,
                       !.status = "ok"]
    IN  IF x.is_type THEN [t EXCEPT !.default_generator_class = x.cls]
        ELSE [t EXCEPT !.default_generator = x.instance,
                       !.default_generator_class = x.instance.cls, !.made = @ + 1]

\* set_sequence_generator_backend(x), x a class or an instance made by the caller
set_sequence_generator_backend(s, x) ==
    LET t == [s EXCEPT !.gets = 0, !.returned = {}, !.constructed = 0, !.inits = 0,
                       !.status = "ok"]
    IN  IF x.is_type
        THEN [t EXCEPT !.default_generator_class = x.cls,
                       !.default_generator =
                           IF @ # None /\ ~isinstance(@, x.cls) THEN None ELSE @]
        ELSE [t EXCEPT !.default_generator = x.instance,
                       !.default_generator_class = x.instance.cls, !.made = @ + 1]

\* get_sequence_generator_backend(); imports tells whether the constructor of
\* BiolibProteinMPNN finds biolib, init_ok whether init() goes through
get_sequence_generator_backend(s, imports, init_ok) ==
    LET cls == s.default_generator_class
        needs_init == cls # "BiolibProteinMPNN"
        g == [cls |-> cls, id |-> s.made + 1, loaded |-> needs_init /\ init_ok]
    IN  IF s.default_generator # None
        THEN [s EXCEPT !.gets = @ + 1, !.returned = @ \cup {s.default_generator},
                       !.status = "ok"]
        ELSE IF cls = "BiolibProteinMPNN" /\ ~imports
        THEN [s EXCEPT !.gets = @ + 1, !.status = "ImportError"]
        ELSE [s EXCEPT !.gets = @ + 1, !.default_generator = g, !.made = @ + 1,
                       !.constructed = @ + 1,
                       !.inits = IF needs_init THEN @ + 1 ELSE @,
                       !.returned = IF needs_init /\ ~init_ok THEN @ ELSE @ \cup {g},
                       !.status = IF needs_init /\ ~init_ok THEN "init raised" ELSE "ok"]

SetBackend ==
    /\ \E c \in {"BiolibProteinMPNN", "Downloadable", "Sub"}, is_type \in BOOLEAN, loaded \in BOOLEAN :
           /\ is_type => ~loaded
           /\ ~is_type => BackendState.made < MaxInstances
           /\ loaded => c # "BiolibProteinMPNN"
           /\ backend' = set_sequence_generator_backend(
                  BackendState,
                  [is_type |-> is_type, cls |-> c,
                   instance |-> [cls |-> c, id |-> BackendState.made + 1, loaded |-> loaded]])
    /\ UNCHANGED <<toolVars, guiVars, clus, a3m, upload, edit, aln, dl, job>>

GetBackend ==
    /\ BackendState.gets < MaxGets
    /\ BackendState.default_generator = None => BackendState.made < MaxInstances
    /\ \E imports \in BOOLEAN, init_ok \in BOOLEAN :
           backend' = get_sequence_generator_backend(BackendState, imports, init_ok)
    /\ UNCHANGED <<toolVars, guiVars, clus, a3m, upload, edit, aln, dl, job>>

NextBackend == SetBackend \/ GetBackend

SpecBackend == InitStore /\ [][NextBackend]_vars

\* ======================================================== MMSeqs2Colab
MaxRetries == 3
MaxPolls == 3
MaxInterval == 2

\* An MMSeqs2Colab object: job_id and status (None as "None"), where a running
\* wait or align stands (pc), and what the last call was given and did:
\* the POST answers and the number of POSTs of submit, max_wait (-1 for None),
\* retry_interval and the number of status checks of wait, the status
\* fetch_results saw and whether it started the download.
JobState ==
    IF job # None THEN job
    ELSE [job_id |-> "None", status |-> "None", pc |-> "idle", in_align |-> FALSE,
          op |-> "none", result |-> "ok", before |-> [job_id |-> "None", status |-> "None"],
          retries |-> 0, answers |-> <<>>, posts |-> 0,
          max_wait |-> -1, retry_interval |-> 1, checks |-> 0,
          seen |-> "None", downloaded |-> FALSE]

\* the call s.op starts: the attributes as they are, nothing done yet
Called(s, f, in_align) ==
    [s EXCEPT !.op = f, !.in_align = in_align, !.result = "running",
              !.before = [job_id |-> s.job_id, status |-> s.status],
              !.retries = 0, !.answers = <<>>, !.posts = 0,
              !.max_wait = -1, !.retry_interval = 1, !.checks = 0,
              !.seen = "None", !.downloaded = FALSE]

\* every HTTP error is answered by another attempt
submit_retry_any(s, retries, answers, in_align) ==
    LET RECURSIVE attempt(_)
        attempt(i) ==
            IF i > retries THEN [posts |-> Max(retries, 0), raised |-> "UnboundLocalError"]
            ELSE IF answers[i].code = 200 THEN [posts |-> i, raised |-> "ok"]
            ELSE attempt(i + 1)
        r == attempt(1)
        c == Called(s, "submit", in_align /\ r.raised = "ok")
    IN  [c EXCEPT !.retries = retries, !.answers = answers, !.posts = r.posts,
                  !.result = r.raised,
                  !.job_id = IF r.raised = "ok" THEN answers[r.posts].id ELSE @,
                  !.status = IF r.raised = "ok" THEN answers[r.posts].status ELSE @,
                  !.pc = IF in_align /\ r.raised = "ok" THEN "waiting" ELSE "idle"]

\* submit(sequences, retries=retries), answers[i] being what the server answers
\* to the i-th POST; called by align when in_align, which goes on to wait()
submit(s, retries, answers, in_align) ==
    LET RECURSIVE attempt(_)
        attempt(i) ==
            IF i > retries THEN [posts |-> Max(retries, 0), raised |-> "UnboundLocalError"]
            ELSE IF answers[i].code = 200 THEN [posts |-> i, raised |-> "ok"]
            ELSE IF answers[i].code = 503 THEN attempt(i + 1)
            ELSE [posts |-> i, raised |-> "HTTPError"]
        r == attempt(1)
        c == Called(s, "submit", in_align /\ r.raised = "ok")
    IN  [c EXCEPT !.retries = retries, !.answers = answers, !.posts = r.posts,
                  !.result = r.raised,
                  !.job_id = IF r.raised = "ok" THEN answers[r.posts].id ELSE @,
                  !.status = IF r.raised = "ok" THEN answers[r.posts].status ELSE @,
                  !.pc = IF in_align /\ r.raised = "ok" THEN "waiting" ELSE "idle"]

\* wait returns after its first status check
wait_single_check(s, answer) ==
    LET returned == [s EXCEPT !.op = "wait", !.result = "returned",
                              !.pc = IF s.in_align THEN "fetch" ELSE "idle"]
    IN  IF s.status \notin {"PENDING", "RUNNING"} THEN returned
        ELSE IF answer = "HTTPError"
        THEN [s EXCEPT !.op = "wait", !.checks = @ + 1, !.result = "HTTPError",
                       !.pc = "idle"]
        ELSE [returned EXCEPT !.status = answer, !.checks = @ + 1]

\* wait(max_wait, retry_interval): the test of the while loop and, when it
\* holds, one round of it; answer is what check_status gets from the server.
\* When wait returns inside align, align goes on to fetch_results.
wait(s, answer) ==
    LET max_retries == IF s.max_wait # -1 THEN s.max_wait \div s.retry_interval ELSE -1
        retries == s.checks + 1
        returned == [s EXCEPT !.op = "wait", !.result = "returned",
                              !.pc = IF s.in_align THEN "fetch" ELSE "idle"]
    IN  IF s.status \notin {"PENDING", "RUNNING"} THEN returned
        ELSE IF answer = "HTTPError"
        THEN [s EXCEPT !.op = "wait", !.checks = retries, !.result = "HTTPError",
                       !.pc = "idle"]
        ELSE IF max_retries # -1 /\ retries >= max_retries
        THEN [returned EXCEPT !.status = answer, !.checks = retries]
        ELSE [s EXCEPT !.op = "wait", !.result = "running", !.status = answer,
                       !.checks = retries]

\* fetch_results(); downloaded tells what download_targz extracts
fetch_results(s, answer, extracted) ==
    LET c == [Called(s, "fetch_results", s.in_align /\ s.pc = "fetch") EXCEPT
                  !.pc = "idle", !.checks = s.checks]
    IN  IF answer = "HTTPError" THEN [c EXCEPT !.result = "HTTPError"]
        ELSE IF answer \in {"PENDING", "RUNNING"}
        THEN [c EXCEPT !.status = answer, !.seen = answer, !.result = "None"]
        ELSE IF answer = "ERROR"
        THEN [c EXCEPT !.status = answer, !.seen = answer, !.result = "Exception"]
        ELSE [c EXCEPT !.status = answer, !.seen = answer, !.downloaded = TRUE,
                       !.result = IF extracted THEN "ok" ELSE "FileNotFoundError"]

\* submit, or the submit of align, is called
Submit ==
    /\ JobState.pc = "idle"
    /\ \E retries \in 0..MaxRetries, in_align \in BOOLEAN :
       \E answers \in [1..retries ->
                          {[code |-> 503, id |-> "None", status |-> "None"],
                           [code |-> 404, id |-> "None", status |-> "None"]}
                          \cup {[code |-> 200, id |-> "t1", status |-> "PENDING"],
                                [code |-> 200, id |-> "t2", status |-> "COMPLETE"]}] :
           job' = submit(JobState, retries, answers, in_align)
    /\ UNCHANGED <<toolVars, guiVars, clus, a3m, upload, edit, aln, dl, backend>>

\* wait is called
Wait ==
    /\ JobState.pc = "idle"
    /\ \E max_wait \in -1..MaxPolls, retry_interval \in 1..MaxInterval :
           job' = [Called(JobState, "wait", FALSE) EXCEPT
                       !.pc = "waiting", !.max_wait = max_wait,
                       !.retry_interval = retry_interval]
    /\ UNCHANGED <<toolVars, guiVars, clus, a3m, upload, edit, aln, dl, backend>>

\* a running wait tests its loop condition; at most MaxPolls rounds are followed
Poll ==
    /\ JobState.pc = "waiting"
    /\ JobState.checks < MaxPolls \/ JobState.status \notin {"PENDING", "RUNNING"}
    /\ \E answer \in {"PENDING", "RUNNING", "COMPLETE", "ERROR", "HTTPError"} :
           job' = wait(JobState, answer)
    /\ UNCHANGED <<toolVars, guiVars, clus, a3m, upload, edit, aln, dl, backend>>

\* fetch_results is called, by the user or by align after its wait
FetchResults ==
    /\ JobState.pc \in {"idle", "fetch"}
    /\ \E answer \in {"PENDING", "RUNNING", "COMPLETE", "ERROR", "HTTPError"},
          extracted \in BOOLEAN :
           job' = fetch_results(JobState, answer, extracted)
    /\ UNCHANGED <<toolVars, guiVars, clus, a3m, upload, edit, aln, dl, backend>>

NextMMSeqs == Submit \/ Wait \/ Poll \/ FetchResults

SpecMMSeqs == InitStore /\ [][NextMMSeqs]_vars

\* ================================================================== claims
IsPrefix(rows, df, k) == Len(rows) = k /\ \A i \in 1..k : rows[i] = df[i]

\* C1 as stated: adjust_depth(T, d) always returns exactly d rows, the first d
\* rows of T when d <= len(T), for every integer d and every table T
\* (negative d and an empty T included).
C1_AnyDepthExactRows ==
    op = "adjust_depth" =>
        /\ out.status = "ok"
        /\ Len(out.rows) = arg.n
        /\ (arg.n <= Len(inp) => IsPrefix(out.rows, inp, arg.n))

\* C1 amended: for d >= 0 and T non-empty (or d = 0) adjust_depth(T, d) returns
\* exactly d rows, the first d rows of T when d <= len(T); for d < 0 it returns
\* T unchanged; for an empty T and d > 0 it raises ZeroDivisionError.
C1_DepthExactRows ==
    op = "adjust_depth" =>
        /\ (arg.n >= 0 /\ (Len(inp) >= 1 \/ arg.n = 0)) =>
              /\ out.status = "ok"
              /\ Len(out.rows) = arg.n
              /\ (arg.n <= Len(inp) => IsPrefix(out.rows, inp, arg.n))
        /\ arg.n < 0 => out = Ok(inp)
        /\ (Len(inp) = 0 /\ arg.n > 0) => out.status = "ZeroDivisionError"

\* a crop that drops rows: 0 < d < len(T)
C1_Witness ==
    /\ op = "adjust_depth"
    /\ arg.n = 1
    /\ Len(inp) = 2
    /\ out = Ok(<<inp[1]>>)

\* C2: for 1 <= n = len(T) < d, adjust_depth(T, d) has d rows and its row i
\* (0-based) is row (i mod n) of T.
C2_CyclicExtension ==
    (op = "adjust_depth" /\ Len(inp) >= 1 /\ Len(inp) < arg.n) =>
        /\ out.status = "ok"
        /\ Len(out.rows) = arg.n
        /\ \A i \in 0..(arg.n - 1) : out.rows[i + 1] = inp[(i % Len(inp)) + 1]

\* the documented example: 3 rows extended to depth 5
C2_Witness ==
    /\ op = "adjust_depth"
    /\ inp = GapScenario
    /\ arg.n = 5
    /\ out = Ok(<<inp[1], inp[2], inp[3], inp[1], inp[2]>>)

\* The target length the claim speaks of.
TargetOf(df, a) ==
    CASE a.kind = "first" -> Len(df[1].sequence)
      [] a.kind = "max" -> SetMax({Len(df[i].sequence) : i \in 1..Len(df)})
      [] a.kind = "min" -> SetMin({Len(df[i].sequence) : i \in 1..Len(df)})
      [] OTHER -> a.n

\* row i of rows is row i of df cut to its first L characters or right-padded
\* with "-" to L characters
PaddedOrCut(rows, df, i, L) ==
    LET s == df[i].sequence
        t == rows[i].sequence
    IN  /\ rows[i].header = df[i].header
        /\ Len(t) = L
        /\ \A k \in 1..L : t[k] = IF k <= Len(s) THEN s[k] ELSE "-"

UnifiedTo(rows, df, L) ==
    /\ Len(rows) = Len(df)
    /\ \A i \in 1..Len(df) : PaddedOrCut(rows, df, i, L)

\* C3 as stated: for any table and any target ("first", "max", "min" or any
\* integer) every sequence of the result has exactly the target length.
C3_AnyTargetUnified ==
    op = "unify_length" =>
        /\ out.status = "ok"
        /\ UnifiedTo(out.rows, inp, TargetOf(inp, arg))

\* C3 amended: for a table with at least one row and a target "first", "max",
\* "min" or an integer >= 0, every sequence of the result has exactly the
\* target length L, cut to its first L characters or right-padded with "-";
\* row count and order are unchanged.
C3_Unified ==
    (/\ op = "unify_length"
     /\ Len(inp) >= 1
     /\ (arg.kind = "int" => arg.n >= 0)) =>
        /\ out.status = "ok"
        /\ UnifiedTo(out.rows, inp, TargetOf(inp, arg))

\* one row is cut and another is padded by the same call
C3_Witness ==
    /\ op = "unify_length"
    /\ out.status = "ok"
    /\ arg.kind = "int"
    /\ arg.n = 1
    /\ \E i, j \in 1..Len(inp) : Len(inp[i].sequence) = 2 /\ Len(inp[j].sequence) = 0

\* C4 as stated: unify_length(unify_length(T, n), n) = unify_length(T, n) for
\* every target n, integers of any sign included.
C4_AnyTargetIdempotent ==
    (op = "unify_length" /\ calls >= 2) => out = Ok(inp)

\* C4 amended: unify_length(unify_length(T, n), n) = unify_length(T, n) for a
\* target "first", "max", "min" or an integer n >= 0.
C4_Idempotent ==
    (op = "unify_length" /\ calls >= 2 /\ (arg.kind = "int" => arg.n >= 0)) =>
        out = Ok(inp)

\* a second call on a table the first call changed
C4_Witness ==
    /\ op = "unify_length"
    /\ calls >= 2
    /\ arg.kind = "min"
    /\ out = Ok(inp)
    /\ \E i \in 1..Len(inp) : Len(inp[i].sequence) = 1

\* rows holds exactly the rows of df that satisfy P, in their order in df
ExactlyRowsWhere(rows, df, P(_)) ==
    LET I == {i \in 1..Len(df) : P(df[i])}
    IN  /\ Len(rows) = Cardinality(I)
        /\ \A i \in I : rows[Cardinality({j \in I : j <= i})] = df[i]

ValidFraction(a) == 0 <= a.n /\ a.n <= a.m

\* number of "-" divided by the length is at most a.n / a.m (no fraction is
\* defined for an empty sequence)
ClaimGapFractionAtMost(r, a) ==
    /\ Len(r.sequence) > 0
    /\ Cardinality({k \in 1..Len(r.sequence) : r.sequence[k] = "-"}) * a.m
           <= a.n * Len(r.sequence)

\* C5: for f in [0,1], filter_gaps(T, f) returns exactly the rows of T whose gap
\* fraction is <= f (inclusive), in their original order; for MKV-, MKVL, MK--
\* and f = 0.25 the first two rows are kept.
C5_GapFilterExact ==
    (op = "filter_gaps" /\ ValidFraction(arg)) =>
        /\ out.status = "ok"
        /\ ExactlyRowsWhere(out.rows, inp, LAMBDA r : ClaimGapFractionAtMost(r, arg))
        /\ (inp = GapScenario /\ arg.n * 4 = arg.m) => out.rows = <<inp[1], inp[2]>>

\* the documented example, whose first row lies exactly on the bound
C5_Witness ==
    /\ op = "filter_gaps"
    /\ inp = GapScenario
    /\ arg.n * 4 = arg.m
    /\ out = Ok(<<inp[1], inp[2]>>)

RowsOf(rows) == {rows[i] : i \in 1..Len(rows)}

\* C6: for f1 >= f2 in [0,1], every row of filter_gaps(T, f2) is a row of
\* filter_gaps(T, f1).
C6_GapFilterMonotone ==
    (op = "filter_gaps" /\ ValidFraction(arg)) =>
        \A a1 \in FractionArgs("fraction") :
            (ValidFraction(a1) /\ a1.n >= arg.n) =>
                RowsOf(out.rows) \subseteq RowsOf(filter_gaps(inp, a1.n, a1.m).rows)

\* the smaller threshold keeps a row and drops one that a larger one keeps
C6_Witness ==
    /\ op = "filter_gaps"
    /\ ValidFraction(arg)
    /\ Len(out.rows) >= 1
    /\ \E a1 \in FractionArgs("fraction") :
          /\ ValidFraction(a1)
          /\ a1.n > arg.n
          /\ Len(filter_gaps(inp, a1.n, a1.m).rows) > Len(out.rows)

\* number of positions, over the overlap, at which x equals the query string
MatchCount(query, x) ==
    Cardinality({k \in 1..Min(Len(query), Len(x)) : query[k] = x[k]})

ClaimIdentityKept(query, r, a) ==
    /\ Len(r.sequence) > 0
    /\ IF a.kind = "keep"
       THEN MatchCount(query, r.sequence) * a.m >= a.n * Len(r.sequence)
       ELSE MatchCount(query, r.sequence) * a.m < a.n * Len(r.sequence)

\* C7: filter_identity scores a non-query row r by (matching positions of the
\* query string and r over their overlap) / len(r); "keep" returns exactly the
\* non-query rows with fraction >= threshold, "remove" those with fraction <
\* threshold, after the query row.
C7_IdentityFilterExact ==
    (/\ op = "filter_identity"
     /\ ValidFraction(arg)
     /\ arg.kind \in {"keep", "remove"}
     /\ Len(inp) >= 1) =>
        /\ out.status = "ok"
        /\ Len(out.rows) >= 1
        /\ ExactlyRowsWhere(Tail(out.rows), Tail(inp),
                            LAMBDA r : ClaimIdentityKept(inp[1].sequence, r, arg))

IsPermutation(rows, df) ==
    /\ Len(rows) = Len(df)
    /\ \A i \in 1..Len(df) :
          Cardinality({j \in 1..Len(rows) : rows[j] = df[i]})
              = Cardinality({j \in 1..Len(df) : df[j] = df[i]})

OrderedBy(rows, Key(_), ascending) ==
    \A i \in 1..(Len(rows) - 1) :
        IF ascending THEN Key(rows[i]) <= Key(rows[i + 1])
        ELSE Key(rows[i]) >= Key(rows[i + 1])

\* C8: sort_identity orders the non-query rows by the number of positions at
\* which the row equals the query sequence, in the requested direction; for
\* Q=AAAA, x=AAAT, y=AATT and ascending=True the result is Q, y, x.
C8_SortedByMatches ==
    (op = "sort_identity" /\ Len(inp) >= 1) =>
        /\ out.status = "ok"
        /\ IsPermutation(out.rows, inp)
        /\ OrderedBy(Tail(out.rows), LAMBDA r : MatchCount(inp[1].sequence, r.sequence),
                     arg.flag)
        /\ (inp = IdentityScenario /\ arg.flag) => out.rows = <<inp[1], inp[3], inp[2]>>

ClaimGapKey(r) == Cardinality({k \in 1..Len(r.sequence) : r.sequence[k] = "-"})

PositionIn(df, r) == CHOOSE k \in 1..Len(df) : df[k] = r

\* rows with equal keys are in the order they have in df
TiesKeepOrder(rows, df, Key(_)) ==
    \A i, j \in 1..Len(rows) :
        (i < j /\ Key(rows[i]) = Key(rows[j])) =>
            PositionIn(df, rows[i]) <= PositionIn(df, rows[j])

SortedByGaps(rows, df, ascending) ==
    /\ Len(rows) >= 1
    /\ rows[1] = df[1]
    /\ IsPermutation(Tail(rows), Tail(df))
    /\ OrderedBy(Tail(rows), ClaimGapKey, ascending)

\* C9 as stated: sort_gaps(T, ascending) is row 0 of T followed by a permutation
\* of the other rows ordered by gap count in the requested direction, and rows
\* with equal gap count keep their original relative order.
C9_SortGapsStable ==
    (op = "sort_gaps" /\ Len(inp) >= 1) =>
        /\ out.status = "ok"
        /\ SortedByGaps(out.rows, inp, arg.flag)
        /\ TiesKeepOrder(Tail(out.rows), Tail(inp), ClaimGapKey)

\* C9 amended: sort_gaps(T, ascending) is row 0 of T followed by a permutation
\* of the other rows ordered by gap count in the requested direction (the
\* order of rows with equal gap count is not determined).
C9_SortGaps ==
    (op = "sort_gaps" /\ Len(inp) >= 1) =>
        /\ out.status = "ok"
        /\ SortedByGaps(out.rows, inp, arg.flag)

\* a descending sort that had to reorder the non-query rows
C9_Witness ==
    /\ op = "sort_gaps"
    /\ ~arg.flag
    /\ out.status = "ok"
    /\ Len(inp) >= 3
    /\ ClaimGapKey(inp[2]) < ClaimGapKey(inp[3])
    /\ out.rows[2] = inp[3]

\* C10: for a table with at least one row, row 0 of sort_gaps(T, ..), of
\* sort_identity(T, ..) and of filter_identity(T, ..) is row 0 of T; the call
\* returns a table unless filter_identity is given a threshold outside [0,1] or
\* an unknown method.
C10_QueryStays ==
    (op \in {"sort_gaps", "sort_identity", "filter_identity"} /\ Len(inp) >= 1) =>
        /\ out.status = "ok" <=>
              (op = "filter_identity" =>
                  (ValidFraction(arg) /\ arg.kind \in {"keep", "remove"}))
        /\ out.status = "ok" => (Len(out.rows) >= 1 /\ out.rows[1] = inp[1])

\* the query has fewer gaps than a row below it and the sort is descending
C10_Witness ==
    /\ op = "sort_gaps"
    /\ ~arg.flag
    /\ out.status = "ok"
    /\ Len(inp) >= 2
    /\ ClaimGapKey(inp[1]) < ClaimGapKey(inp[2])
    /\ out.rows[1] = inp[1]

\* C11: for either value of keep_first, no two rows of drop_duplicates(T)
\* have the same sequence, the survivors are the first (last) occurrences of
\* their sequences in their original order, and a second call changes nothing.
C11_DropDuplicates ==
    op = "drop_duplicates" =>
        LET I == {i \in 1..Len(inp) :
                    IF arg.flag
                    THEN ~\E j \in 1..Len(inp) : j < i /\ inp[j].sequence = inp[i].sequence
                    ELSE ~\E j \in 1..Len(inp) : j > i /\ inp[j].sequence = inp[i].sequence}
        IN  /\ out.status = "ok"
            /\ \A i, j \in 1..Len(out.rows) :
                  out.rows[i].sequence = out.rows[j].sequence => i = j
            /\ Len(out.rows) = Cardinality(I)
            /\ \A i \in I : out.rows[Cardinality({j \in I : j <= i})] = inp[i]
            /\ calls >= 2 => out.rows = inp

\* the last of two rows with the same sequence survives
C11_Witness ==
    /\ op = "drop_duplicates"
    /\ ~arg.flag
    /\ calls = 1
    /\ Len(inp) = 2
    /\ inp[1].sequence = inp[2].sequence
    /\ out = Ok(<<inp[2]>>)

\* C12: after unify_length(T, ..) or slice_sequences(T, ..) returns, the
\* caller's table T holds the sequence values it held before the call.
C12_InputUnchanged ==
    (op \in {"unify_length", "slice_sequences"} /\ out.status = "ok") => caller_df = inp

ClusteredRows(rows, msa, n_clusters) ==
    /\ Len(rows) = Len(msa)
    /\ \A i \in 1..Len(msa) :
        /\ rows[i].header = msa[i].header
        /\ rows[i].sequence = msa[i].sequence
        /\ rows[i].cluster_id \in 0..(n_clusters - 1)

KMeansCalled == IF clus = None THEN FALSE ELSE clus.call.fn = "kmeans"

\* C16 as stated: for any table of at least 2 rows and any n_clusters not
\* above the row count, KMeans.cluster (no extra columns, a known encoding)
\* returns the input rows in order, each with a cluster_id of 0 .. n_clusters-1.
C16_AnyTableClustered ==
    (/\ KMeansCalled
     /\ Len(clus.call.msa) >= 2
     /\ clus.call.n_clusters <= Len(clus.call.msa)
     /\ ~clus.call.columns
     /\ clus.call.sequence_encoding \in {"onehot", "numvector"}) =>
        /\ clus.result.status = "ok"
        /\ ClusteredRows(clus.result.rows, clus.call.msa, clus.call.n_clusters)

\* C16: for a table of at least 2 rows with at least one non-empty sequence
\* and 1 <= n_clusters <= row count, KMeans.cluster (no extra columns or a
\* numeric one, a known encoding) returns the input rows in order, each with
\* its header, its sequence and a cluster_id of 0 .. n_clusters - 1.
C16_Clustered ==
    (/\ KMeansCalled
     /\ Len(clus.call.msa) >= 2
     /\ \E i \in 1..Len(clus.call.msa) : Len(clus.call.msa[i].sequence) > 0
     /\ clus.call.n_clusters >= 1
     /\ clus.call.n_clusters <= Len(clus.call.msa)
     /\ ~clus.call.columns \/ clus.call.aux = "numeric"
     /\ clus.call.sequence_encoding \in {"onehot", "numvector"}) =>
        /\ clus.result.status = "ok"
        /\ ClusteredRows(clus.result.rows, clus.call.msa, clus.call.n_clusters)

\* three rows in two clusters, both labels used
C16_Witness ==
    /\ KMeansCalled
    /\ Len(clus.call.msa) = 3
    /\ clus.call.n_clusters = 2
    /\ ~clus.call.columns
    /\ clus.result.status = "ok"
    /\ {clus.result.rows[i].cluster_id : i \in 1..3} = {0, 1}

\* C17: a clustering call (kmeans or afcluster) on fewer than 2 rows ends in
\* an error with only the precheck run: no encoding, grid search or
\* clustering, no rows returned and no cluster_id column on the caller's table.
C17_TooFewRows ==
    (clus # None /\ Len(clus.call.msa) < 2) =>
        /\ clus.result.status # "ok"
        /\ clus.result.steps = <<"precheck">>
        /\ clus.result.rows = <<>>
        /\ ~clus.result.caller_cluster_id

\* kmeans on a single row that sklearn itself would have accepted
C17_Witness ==
    /\ KMeansCalled
    /\ Len(clus.call.msa) = 1
    /\ clus.call.n_clusters = 1
    /\ clus.call.sequence_encoding = "onehot"
    /\ Len(clus.call.msa[1].sequence) > 0
    /\ clus.result.status = "ValueError"

\* C18: KMeans.cluster with columns naming an absent or a non-numeric column
\* fails, and the caller's table has no cluster_id column afterwards.
C18_BadColumnsFail ==
    (/\ KMeansCalled
     /\ clus.call.columns
     /\ clus.call.aux # "numeric") =>
        /\ clus.result.status # "ok"
        /\ ~clus.result.caller_cluster_id

A3MRead == IF a3m = None THEN FALSE ELSE a3m.pc = "read"

\* the table read back has the rows of the table written: the same sequences
\* and the same headers up to surrounding whitespace
RoundTrip ==
    /\ a3m.out.status = "ok"
    /\ Len(a3m.out.rows) = Len(a3m.df)
    /\ \A i \in 1..Len(a3m.df) :
        /\ a3m.out.rows[i].sequence = a3m.df[i].sequence
        /\ strip(a3m.out.rows[i].header) = strip(a3m.df[i].header)

\* C19 as stated: read_a3m(write_a3m(T)) has the rows of T for any table T.
C19_AnyTableRoundTrip == A3MRead => RoundTrip

\* C19: read_a3m(write_a3m(T)) has as many rows as T, the same sequences and
\* the same headers up to surrounding whitespace, for a table T in which no
\* header holds a line break and no sequence holds a line break, begins with
\* ">" or begins or ends with whitespace.
C19_RoundTrip ==
    (/\ A3MRead
     /\ \A i \in 1..Len(a3m.df) :
         /\ \A k \in 1..Len(a3m.df[i].header) : a3m.df[i].header[k] # "\n"
         /\ strip(a3m.df[i].sequence) = a3m.df[i].sequence
         /\ a3m.df[i].sequence = <<>> \/ a3m.df[i].sequence[1] # ">") => RoundTrip

\* two rows, the first with an empty sequence and the second with an empty
\* header, read back as two rows
C19_Witness ==
    /\ A3MRead
    /\ Len(a3m.df) = 2
    /\ a3m.df[1].sequence = <<>>
    /\ a3m.df[1].header = <<" ", "h", " ">>
    /\ a3m.df[2].header = <<>>
    /\ a3m.df[2].sequence = <<"A", "-">>
    /\ a3m.out.status = "ok"
    /\ Len(a3m.out.rows) = 2

RejectedCsv ==
    IF upload = None THEN FALSE
    ELSE /\ upload.file.suffix = "csv"
         /\ upload.file.read_csv.status = "ok"
         /\ "sequence" \notin DOMAIN upload.file.read_csv.msa

\* C20: the upload of a CSV without a sequence column shows the error dialog
\* and leaves main-msa and msa-data as they were, and every table registered
\* in msa-data has a sequence column.
C20_CsvWithoutSequence ==
    /\ [](RejectedCsv => upload.children = "upload-error")
    /\ [](\A k \in DOMAIN msa_data : "sequence" \in DOMAIN msa_data[k])
    /\ [][RejectedCsv' => (main_msa' = main_msa /\ msa_data' = msa_data)]_vars

\* a CSV without a sequence column was rejected while two alignments are
\* registered
C20_Witness ==
    /\ RejectedCsv
    /\ upload.children = "upload-error"
    /\ DOMAIN msa_data = {<<"m", ".a3m">>, <<"t", ".csv">>}
    /\ main_msa = <<"m", ".a3m">>

\* C21: whenever the copy button can be used, the name copy_msa chooses is not
\* yet a key of msa-data, and the new entry is the table of the source.
C21_CopyNeverOverwrites ==
    LET r == copy_msa(1, main_msa, msa_data)
    IN  r.update =>
            /\ r.main_msa \notin DOMAIN msa_data
            /\ r.msa_data[r.main_msa] = msa_data[main_msa]

\* C24: main-msa is None or a key of msa-data.
C24_MainIsKey == main_msa = <<>> \/ main_msa \in DOMAIN msa_data

C26_OnlyClicksEdit ==
    [][EditState'.n_clicks = EditState.n_clicks
           => msa_data' = msa_data /\ main_msa' = main_msa]_vars

\* C22: after to_depth(n, extend, crop=True) with extend "repeat" or "patch"
\* the alignment has exactly n rows.
C22_DepthReached ==
    (aln # None /\ aln.op = "to_depth" /\ aln.crop /\ aln.extend \in {"repeat", "patch"})
        => Len(aln.df) = aln.n

\* C23: when download_from_url ends in an error after requesting the URL,
\* nothing is at local_path.
C23_NothingSavedOnFailure ==
    (dl # None /\ dl.op = "download_from_url"
       /\ dl.status \notin {"ok", "FileExistsError"})
        => dl.file = "absent"

\* C30: the cached default generator is unset or an instance of the default
\* class, and the gets since the last set have returned one and the same
\* instance, with at most one generator made and at most one init() call.
C30_CachedGenerator ==
    /\ BackendState.default_generator # None
           => isinstance(BackendState.default_generator,
                         BackendState.default_generator_class)
    /\ Cardinality(BackendState.returned) <= 1
    /\ BackendState.constructed <= 1
    /\ BackendState.inits <= 1

\* a class other than the first default was set while another generator was
\* cached, and two gets since have returned the generator made and initialised
\* by the first of them
C30_Witness ==
    /\ BackendState.default_generator_class = "Downloadable"
    /\ BackendState.gets >= 2
    /\ BackendState.constructed = 1
    /\ BackendState.inits = 1
    /\ BackendState.made >= 2
    /\ Cardinality(BackendState.returned) = 1

\* C27: a wait without max_wait that has returned leaves a status that is
\* neither PENDING nor RUNNING; align calls fetch_results only after its wait
\* has returned with such a status; fetch_results starts no download when it
\* sees PENDING or RUNNING and raises when it sees ERROR.
C27_WaitUntilTerminal ==
    LET s == JobState
        unfinished == {"PENDING", "RUNNING"}
    IN  /\ (s.op = "wait" /\ s.result = "returned" /\ s.max_wait = -1)
               => s.status \notin unfinished
        /\ s.pc = "fetch"
               => s.op = "wait" /\ s.result = "returned" /\ s.status \notin unfinished
        /\ (s.op = "fetch_results" /\ s.in_align) => s.before.status \notin unfinished
        /\ (s.op = "fetch_results" /\ s.seen \in unfinished)
               => ~s.downloaded /\ s.result = "None"
        /\ (s.op = "fetch_results" /\ s.seen = "ERROR")
               => ~s.downloaded /\ s.result = "Exception"

\* align has started the download after its wait made three status checks
C27_Witness ==
    /\ JobState.op = "fetch_results"
    /\ JobState.in_align
    /\ JobState.downloaded
    /\ JobState.checks >= 3

\* C28: a wait with max_wait given makes at most max_wait // retry_interval
\* status checks.
C28_BoundedChecks ==
    (JobState.op = "wait" /\ JobState.max_wait >= 0)
        => JobState.checks <= JobState.max_wait \div JobState.retry_interval

\* C29: submit sends at most retries POSTs, each but the first after a 503;
\* the first answer that is another HTTP error ends it with that error;
\* job_id and status change only to the values of a successful answer; when
\* every attempt is answered 503 (or there is none) submit raises and
\* job_id and status are as before.
C29_SubmitRetries ==
    LET s == JobState
        a == s.answers
        busy(i) == \A j \in 1..(i - 1) : a[j].code = 503
    IN  s.op = "submit" =>
            /\ s.posts <= s.retries
            /\ busy(s.posts)
            /\ \A i \in 1..s.retries :
                   (busy(i) /\ a[i].code \notin {200, 503})
                       => s.posts = i /\ s.result = "HTTPError"
            /\ (s.job_id # s.before.job_id \/ s.status # s.before.status)
                   => /\ s.posts >= 1
                      /\ a[s.posts].code = 200
                      /\ s.job_id = a[s.posts].id
                      /\ s.status = a[s.posts].status
            /\ (\A i \in 1..s.retries : a[i].code = 503)
                   => /\ s.result \notin {"ok", "running"}
                      /\ s.job_id = s.before.job_id
                      /\ s.status = s.before.status

\* a submit for an object that has a job already gets 503 for each of its
\* attempts, more than one
C29_Witness ==
    /\ JobState.op = "submit"
    /\ JobState.before.job_id # "None"
    /\ JobState.retries >= 2
    /\ JobState.posts = JobState.retries
    /\ JobState.result = "UnboundLocalError"
    /\ JobState.job_id = JobState.before.job_id
====
